---- MODULE Spec2Model ----
(***************************************************************************)
(* Two independent programs of the repository.                             *)
(*                                                                         *)
(* 1. app.py, a Streamlit script.  Streamlit re-executes the whole script  *)
(*    on every widget interaction: lines 11-61 (widgets, environment       *)
(*    assignment, agent configuration), lines 63-66 (tracing set-up), and  *)
(*    main() (lines 68-74).  The call Runner.run(triage_agent, user_input) *)
(*    of line 73 hands control to the agents runtime, which runs the input *)
(*    guardrails configured on the starting agent together with that       *)
(*    agent's first turn, raises when a guardrail trips its wire, follows  *)
(*    a handoff the agent asks for, and returns the final output of the    *)
(*    agent that ran last.  What the models answer is not decided by the   *)
(*    script; every outcome the runtime can deliver is a choice here.      *)
(*                                                                         *)
(* 2. parquet_tools.py, one tool function registered with the MCP server.  *)
(*    The provider it calls (utils/file_reader.py) is not among the source *)
(*    files and is modelled from its documented contract.                  *)
(*                                                                         *)
(* A text (credential, query, rationale) is a sequence of characters; the  *)
(* empty sequence is the empty string.                                     *)
(***************************************************************************)
EXTENDS Integers, Sequences, FiniteSets, TLC

VARIABLES
    openai_key,      \* value of the sidebar credential input       (line 19)
    user_input,      \* value of the query input                    (line 69)
    environ,         \* os.environ["OPENAI_API_KEY"]                (line 20)
    tracing_key,     \* key held by the tracing exporter            (line 65)
    trace_status,    \* lines 63-66 in this script run
    button,          \* st.button("Submit") of this script run      (line 70)
    pc,              \* position of the script run
    spinner,         \* the "Processing..." indicator is displayed  (line 71)
    rendered,        \* what the output area shows
    runner_calls,    \* Runner.run(triage_agent, ..) calls of this script run
    runner_input,    \* the input handed to that call
    runner_key,      \* the environment credential at that call
    guard,           \* progress of the input guardrail
    guard_input,     \* input_data handed to research_guardrail
    classify_calls,  \* Runner.run(guardrail_agent, ..) calls of this script run
    final_output,    \* what the classification call returned       (line 48)
    guard_out,       \* what research_guardrail returned            (line 49)
    triage,          \* outcome of the triage agent's turn
    target,          \* the agent the triage turn hands off to
    invoked,         \* specialist agents whose model has been invoked
    result,          \* result of Runner.run(triage_agent, ..)      (line 73)
    files,           \* the data directory: filename -> content
    file_changes,    \* how many times the data directory has been changed
    calls            \* tool invocations in flight: slot -> record

appVars == <<openai_key, user_input, environ, tracing_key, trace_status, button,
             pc, spinner, rendered, runner_calls, runner_input, runner_key,
             guard, guard_input, classify_calls, final_output, guard_out,
             triage, target, invoked, result>>
toolVars == <<files, file_changes, calls>>
vars == <<appVars, toolVars>>

----------------------------------------------------------------------------
(* Bounds of the model *)

MaxKeyLen == 2
MaxQueryLen == 2
MaxReasonLen == 1

RECURSIVE TextOfLen(_)
TextOfLen(k) == IF k = 0 THEN <<>> ELSE Append(TextOfLen(k - 1), "x")

TextsUpTo(n) == {TextOfLen(k) : k \in 0..n}
Credentials == TextsUpTo(MaxKeyLen)
Queries == TextsUpTo(MaxQueryLen)
Reasonings == TextsUpTo(MaxReasonLen)

----------------------------------------------------------------------------
(* app.py: configuration *)

\* class ResearchOutput: is_research: bool, reasoning: str
ResearchOutput == [is_research : BOOLEAN, reasoning : Reasonings]

guardrail_agent ==
    [name |-> "Guardrail Check", handoffs |-> <<>>, input_guardrails |-> <<>>]

physics_research_agent ==
    [name |-> "Physics Researcher", handoffs |-> <<>>, input_guardrails |-> <<>>]

financial_research_agent ==
    [name |-> "Financial Researcher", handoffs |-> <<>>, input_guardrails |-> <<>>]

triage_agent_unguarded ==
    [name |-> "Triage Agent",
     handoffs |-> <<physics_research_agent.name, financial_research_agent.name>>,
     input_guardrails |-> <<>>]

triage_agent ==
    [name |-> "Triage Agent",
     handoffs |-> <<physics_research_agent.name, financial_research_agent.name>>,
     input_guardrails |-> <<"research_guardrail">>]

Specialists == {physics_research_agent.name, financial_research_agent.name}

Range(s) == {s[i] : i \in DOMAIN s}

\* os.environ["OPENAI_API_KEY"] = openai_key
SetEnvironIfUnset(env, key) == IF env = <<>> THEN key ELSE env

SetEnviron(env, key) == key

\* return GuardrailFunctionOutput(output_info = final_output,
\*                                tripwire_triggered = not final_output.is_research)
GuardrailFunctionOutputNoNegation(out) ==
    [output_info |-> out, tripwire_triggered |-> out.is_research]

GuardrailFunctionOutput(out) ==
    [output_info |-> out, tripwire_triggered |-> ~out.is_research]

----------------------------------------------------------------------------
(* app.py: values of the per-run state before anything has happened *)

NoOutput == [is_research |-> FALSE, reasoning |-> <<>>]
NoGuardOut == [output_info |-> NoOutput, tripwire_triggered |-> FALSE]
NoResult == [kind |-> "none", agent |-> "", input |-> <<>>]
Nothing ==
    [kind |-> "none", agent |-> "", input |-> <<>>, error |-> "", rationale |-> <<>>]

\* st.write(result.final_output): the text the last agent produced.  The
\* text is the model's; it is identified by the agent that wrote it and the
\* input it answers.
Written(r) ==
    [kind |-> "text", agent |-> r.agent, input |-> r.input, error |-> "",
     rationale |-> <<>>]

\* An exception that leaves main() and asyncio.run(): Streamlit ends the
\* script run and shows the exception (its class and message).  The message
\* of InputGuardrailTripwireTriggered names the guardrail; the verdict's
\* reasoning is not part of it.
Shown(e) ==
    [kind |-> "exception", agent |-> "", input |-> <<>>, error |-> e,
     rationale |-> <<>>]

TracingErrors == {"TracingSetupError", "TracingFlushError"}

\* A script run starts: everything the previous run displayed or computed
\* is gone.
FreshRun ==
    /\ trace_status' = "pending"
    /\ spinner' = FALSE
    /\ rendered' = Nothing
    /\ runner_calls' = 0
    /\ runner_input' = <<>>
    /\ runner_key' = <<>>
    /\ guard' = "idle"
    /\ guard_input' = <<>>
    /\ classify_calls' = 0
    /\ final_output' = NoOutput
    /\ guard_out' = NoGuardOut
    /\ triage' = "idle"
    /\ target' = ""
    /\ invoked' = {}
    /\ result' = NoResult

runVars == <<runner_calls, runner_input, runner_key, guard, guard_input,
             classify_calls, final_output, guard_out, triage, target, invoked,
             result>>

AppInit ==
    /\ openai_key = <<>>
    /\ user_input = <<>>
    /\ environ = SetEnviron(<<>>, <<>>)
    /\ tracing_key = [set |-> FALSE, key |-> <<>>]
    /\ trace_status = "pending"
    /\ button = FALSE
    /\ pc = "tracing"
    /\ spinner = FALSE
    /\ rendered = Nothing
    /\ runner_calls = 0
    /\ runner_input = <<>>
    /\ runner_key = <<>>
    /\ guard = "idle"
    /\ guard_input = <<>>
    /\ classify_calls = 0
    /\ final_output = NoOutput
    /\ guard_out = NoGuardOut
    /\ triage = "idle"
    /\ target = ""
    /\ invoked = {}
    /\ result = NoResult

----------------------------------------------------------------------------
(* app.py: the user's interactions.  Each one makes Streamlit run the       *)
(* script again from the top; lines 11-61 of that run are part of the       *)
(* action (line 20 assigns the environment variable on every run).          *)

Idle == pc = "idle"

\* the user edits the credential input (lines 19-20)
EditCredential(k) ==
    /\ Idle
    /\ k # openai_key
    /\ openai_key' = k
    /\ environ' = SetEnviron(environ, k)
    /\ button' = FALSE
    /\ pc' = "tracing"
    /\ FreshRun
    /\ UNCHANGED <<user_input, tracing_key, toolVars>>

\* the user edits the query input (line 69)
EditQuery(q) ==
    /\ Idle
    /\ q # user_input
    /\ user_input' = q
    /\ environ' = SetEnviron(environ, openai_key)
    /\ button' = FALSE
    /\ pc' = "tracing"
    /\ FreshRun
    /\ UNCHANGED <<openai_key, tracing_key, toolVars>>

\* the user presses Submit (line 70 will return True in the run it starts)
Submit ==
    /\ Idle
    /\ environ' = SetEnviron(environ, openai_key)
    /\ button' = TRUE
    /\ pc' = "tracing"
    /\ FreshRun
    /\ UNCHANGED <<openai_key, user_input, tracing_key, toolVars>>

----------------------------------------------------------------------------
(* app.py lines 63-66: tracing set-up, executed at module level on every    *)
(* script run, before main() is called.  Nothing catches what it raises.    *)

\* set_tracing_export_api_key(os.getenv("OPENAI_API_KEY")); force_flush()
TracingSetup ==
    /\ pc = "tracing"
    /\ tracing_key' = [set |-> TRUE, key |-> environ]
    /\ trace_status' = "ok"
    /\ pc' = "main"
    /\ UNCHANGED <<openai_key, user_input, environ, button, spinner, rendered,
                   runVars, toolVars>>

\* the import of line 63 or the call of line 65 raises: the key is not set
TracingSetFails ==
    /\ pc = "tracing"
    /\ trace_status' = "failed"
    /\ rendered' = Shown("TracingSetupError")
    /\ pc' = "idle"
    /\ UNCHANGED <<openai_key, user_input, environ, tracing_key, button, spinner,
                   runVars, toolVars>>

\* line 65 has set the key and force_flush() of line 66 raises
TracingFlushFails ==
    /\ pc = "tracing"
    /\ tracing_key' = [set |-> TRUE, key |-> environ]
    /\ trace_status' = "failed"
    /\ rendered' = Shown("TracingFlushError")
    /\ pc' = "idle"
    /\ UNCHANGED <<openai_key, user_input, environ, button, spinner,
                   runVars, toolVars>>

----------------------------------------------------------------------------
(* app.py lines 68-74: main() *)

\* if st.button("Submit"): with st.spinner("Processing..."):
MainEnter ==
    /\ pc = "main"
    /\ IF button
         THEN spinner' = TRUE /\ pc' = "sleep"
         ELSE spinner' = FALSE /\ pc' = "idle"
    /\ UNCHANGED <<openai_key, user_input, environ, tracing_key, trace_status,
                   button, rendered, runVars, toolVars>>

\* time.sleep(10) ends and the with block of line 71 is left
SleepDone ==
    /\ pc = "sleep"
    /\ spinner' = FALSE
    /\ pc' = "run"
    /\ UNCHANGED <<openai_key, user_input, environ, tracing_key, trace_status,
                   button, rendered, runVars, toolVars>>

\* result = await Runner.run(triage_agent, user_input): the call starts.
\* The runtime starts the starting agent's input guardrails and its first
\* turn; research_guardrail starts its classification call (line 47).
RunnerRun ==
    /\ pc = "run"
    /\ runner_calls' = runner_calls + 1
    /\ runner_input' = user_input
    /\ runner_key' = environ
    /\ IF "research_guardrail" \in Range(triage_agent.input_guardrails)
         THEN /\ guard' = "classifying"
              /\ guard_input' = user_input
              /\ classify_calls' = classify_calls + 1
         ELSE /\ guard' = "none"
              /\ UNCHANGED <<guard_input, classify_calls>>
    /\ triage' = "pending"
    /\ pc' = "await"
    /\ UNCHANGED <<openai_key, user_input, environ, tracing_key, trace_status,
                   button, spinner, rendered, final_output, guard_out, target,
                   invoked, result, toolVars>>

uiVars == <<openai_key, user_input, environ, tracing_key, trace_status, button,
            spinner>>

\* lines 47-52: the classification call returns v and research_guardrail
\* returns its GuardrailFunctionOutput
GuardrailReturns(v) ==
    /\ pc = "await"
    /\ guard = "classifying"
    /\ final_output' = v
    /\ guard_out' = GuardrailFunctionOutput(v)
    /\ guard' = "done"
    /\ UNCHANGED <<uiVars, pc, rendered, runner_calls, runner_input, runner_key,
                   guard_input, classify_calls, triage, target, invoked, result,
                   toolVars>>

\* line 47: the classification call raises; the exception leaves
\* research_guardrail, Runner.run and main()
GuardrailFails ==
    /\ pc = "await"
    /\ guard = "classifying"
    /\ guard' = "failed"
    /\ rendered' = Shown("ClassificationError")
    /\ pc' = "idle"
    /\ UNCHANGED <<uiVars, runner_calls, runner_input, runner_key, guard_input,
                   classify_calls, final_output, guard_out, triage, target,
                   invoked, result, toolVars>>

\* the guardrail output has tripwire_triggered: Runner.run raises
\* InputGuardrailTripwireTriggered, which nothing in main() catches
TripwireRaised ==
    /\ pc = "await"
    /\ guard = "done"
    /\ guard_out.tripwire_triggered
    /\ rendered' = Shown("InputGuardrailTripwireTriggered")
    /\ pc' = "idle"
    /\ UNCHANGED <<uiVars, runVars, toolVars>>

\* the triage agent's first turn ends by asking for a handoff to a
TriageHandsOff(a) ==
    /\ pc = "await"
    /\ triage = "pending"
    /\ a \in Range(triage_agent.handoffs)
    /\ triage' = "handoff"
    /\ target' = a
    /\ UNCHANGED <<uiVars, pc, rendered, runner_calls, runner_input, runner_key,
                   guard, guard_input, classify_calls, final_output, guard_out,
                   invoked, result, toolVars>>

\* the triage agent's first turn ends with a plain answer of its own
TriageAnswers ==
    /\ pc = "await"
    /\ triage = "pending"
    /\ triage' = "final"
    /\ UNCHANGED <<uiVars, pc, rendered, runner_calls, runner_input, runner_key,
                   guard, guard_input, classify_calls, final_output, guard_out,
                   target, invoked, result, toolVars>>

\* a model call of the run raises (network, authentication); a tripped
\* wire has been raised already and is the exception that leaves the run
RuntimeFails ==
    /\ pc = "await"
    /\ triage \in {"pending", "specialist"}
    /\ ~(guard = "done" /\ guard_out.tripwire_triggered)
    /\ triage' = "failed"
    /\ rendered' = Shown("RuntimeUnavailable")
    /\ pc' = "idle"
    /\ UNCHANGED <<uiVars, runner_calls, runner_input, runner_key, guard,
                   guard_input, classify_calls, final_output, guard_out, target,
                   invoked, result, toolVars>>

\* the first turn and its guardrails are over and no wire is tripped
GuardPassed ==
    \/ guard = "none"
    \/ guard = "done" /\ ~guard_out.tripwire_triggered

\* the runtime follows the handoff: the specialist's model is invoked
SpecialistInvoked ==
    /\ pc = "await"
    /\ triage = "handoff"
    /\ GuardPassed
    /\ invoked' = invoked \cup {target}
    /\ triage' = "specialist"
    /\ UNCHANGED <<uiVars, pc, rendered, runner_calls, runner_input, runner_key,
                   guard, guard_input, classify_calls, final_output, guard_out,
                   target, result, toolVars>>

\* the specialist (which has no handoffs) answers: Runner.run returns
SpecialistReturns ==
    /\ pc = "await"
    /\ triage = "specialist"
    /\ result' = [kind |-> "final", agent |-> target, input |-> runner_input]
    /\ triage' = "returned"
    /\ pc' = "write"
    /\ UNCHANGED <<uiVars, rendered, runner_calls, runner_input, runner_key,
                   guard, guard_input, classify_calls, final_output, guard_out,
                   target, invoked, toolVars>>

\* the triage agent's own answer is the final output: Runner.run returns
TriageReturns ==
    /\ pc = "await"
    /\ triage = "final"
    /\ GuardPassed
    /\ result' = [kind |-> "final", agent |-> triage_agent.name,
                  input |-> runner_input]
    /\ triage' = "returned"
    /\ pc' = "write"
    /\ UNCHANGED <<uiVars, rendered, runner_calls, runner_input, runner_key,
                   guard, guard_input, classify_calls, final_output, guard_out,
                   target, invoked, toolVars>>

\* st.write(result.final_output)
StWrite ==
    /\ pc = "write"
    /\ rendered' = Written(result)
    /\ pc' = "idle"
    /\ UNCHANGED <<uiVars, runVars, toolVars>>

AppNext ==
    \/ \E k \in Credentials : EditCredential(k)
    \/ \E q \in Queries : EditQuery(q)
    \/ Submit
    \/ TracingSetup
    \/ TracingSetFails
    \/ TracingFlushFails
    \/ MainEnter
    \/ SleepDone
    \/ RunnerRun
    \/ \E v \in ResearchOutput : GuardrailReturns(v)
    \/ GuardrailFails
    \/ TripwireRaised
    \/ \E a \in Specialists : TriageHandsOff(a)
    \/ TriageAnswers
    \/ RuntimeFails
    \/ SpecialistInvoked
    \/ SpecialistReturns
    \/ TriageReturns
    \/ StWrite

----------------------------------------------------------------------------
(* parquet_tools.py: the summaries_parquet_file tool                        *)

MaxRows == 1
MaxCols == 1
MaxChanges == 1

Filenames == {"sample.parquet", "other.parquet"}
\* two requests may be in flight at once
Slots == {"request_a", "request_b"}

\* what the data directory holds under a name
Contents ==
    {[kind |-> "absent", rows |-> 0, cols |-> 0],
     [kind |-> "invalid", rows |-> 0, cols |-> 0]}
    \cup [kind : {"parquet"}, rows : 0..MaxRows, cols : 0..MaxCols]

\* the arguments of a protocol request: a set of <<name, value>> pairs
Has(args, n) == \E p \in args : p[1] = n
Get(args, n) == (CHOOSE p \in args : p[1] = n)[2]
Arguments ==
    {a \in SUBSET (({"filename"} \X Filenames) \cup {<<"verbose", "yes">>}) :
        \A p, q \in a : p[1] = q[1] => p = q}

NoSummary == [ok |-> FALSE, error |-> "", rows |-> 0, columns |-> 0]
Failure(e) == [ok |-> FALSE, error |-> e, rows |-> 0, columns |-> 0]

\* utils.file_reader.read_parquet_summary: opens the named file and returns
\* the description of its row and column counts; FileNotFound when the file
\* does not exist, UnreadableFormat when it is no Parquet file
read_parquet_summary(fs, filename) ==
    LET c == fs[filename] IN
    CASE c.kind = "absent" -> Failure("FileNotFound")
      [] c.kind = "invalid" -> Failure("UnreadableFormat")
      [] OTHER -> [ok |-> TRUE, error |-> "", rows |-> c.rows, columns |-> c.cols]

\* def summaries_parquet_file(filename: str) -> str:
\*     return read_parquet_summary(filename)
summaries_parquet_file_sample(fs, filename) ==
    read_parquet_summary(fs, "sample.parquet")

summaries_parquet_file(fs, filename) == read_parquet_summary(fs, filename)

\* @mcp.tool() on the signature (filename: str): the request's arguments are
\* bound to the one required parameter.  A request without it is rejected;
\* one with a further argument is rejected or has it dropped (strict).
BindArgumentsWithDefault(args, strict) ==
    IF ~Has(args, "filename")
      THEN [ok |-> TRUE, filename |-> "sample.parquet"]
      ELSE [ok |-> TRUE, filename |-> Get(args, "filename")]

BindArguments(args, strict) ==
    IF ~Has(args, "filename")
      THEN [ok |-> FALSE, filename |-> ""]
      ELSE IF strict /\ \E p \in args : p[1] # "filename"
        THEN [ok |-> FALSE, filename |-> ""]
        ELSE [ok |-> TRUE, filename |-> Get(args, "filename")]

IdleCall ==
    [state |-> "idle", args |-> {}, filename |-> "", provider_calls |-> 0,
     version |-> 0, result |-> NoSummary]

ToolInit ==
    /\ files \in [Filenames -> Contents]
    /\ file_changes = 0
    /\ calls = [i \in Slots |-> IdleCall]

\* the tool server is not running
ToolOff ==
    /\ files = [f \in Filenames |-> [kind |-> "absent", rows |-> 0, cols |-> 0]]
    /\ file_changes = 0
    /\ calls = [i \in Slots |-> IdleCall]

\* the protocol host invokes the tool with args
ToolCall(i, args, strict) ==
    /\ calls[i].state = "idle"
    /\ LET b == BindArguments(args, strict) IN
         calls' = [calls EXCEPT ![i] =
            IF b.ok
              THEN [IdleCall EXCEPT !.state = "called", !.args = args,
                                    !.filename = b.filename]
              ELSE [IdleCall EXCEPT !.state = "done", !.args = args,
                                    !.result = Failure("InvalidArguments")]]
    /\ UNCHANGED <<files, file_changes, appVars>>

\* line 15: the body runs, the provider reads the file, the tool returns
ProviderRead(i) ==
    /\ calls[i].state = "called"
    /\ calls' = [calls EXCEPT ![i] =
          [@ EXCEPT !.state = "done",
                    !.provider_calls = @ + 1,
                    !.version = file_changes,
                    !.result = summaries_parquet_file(files, calls[i].filename)]]
    /\ UNCHANGED <<files, file_changes, appVars>>

\* the host has consumed the response
ToolDone(i) ==
    /\ calls[i].state = "done"
    /\ calls' = [calls EXCEPT ![i] = IdleCall]
    /\ UNCHANGED <<files, file_changes, appVars>>

\* something outside the server writes, replaces or removes a file
ChangeFile(f, c) ==
    /\ file_changes < MaxChanges
    /\ c # files[f]
    /\ files' = [files EXCEPT ![f] = c]
    /\ file_changes' = file_changes + 1
    /\ UNCHANGED <<calls, appVars>>

ToolNext ==
    \/ \E i \in Slots, a \in Arguments, st \in BOOLEAN : ToolCall(i, a, st)
    \/ \E i \in Slots : ProviderRead(i)
    \/ \E i \in Slots : ToolDone(i)
    \/ \E f \in Filenames, c \in Contents : ChangeFile(f, c)

----------------------------------------------------------------------------
(* The specifications *)

\* the Streamlit application
Init == AppInit /\ ToolOff
Next == AppNext
Spec == Init /\ [][Next]_vars

\* the tool server
ToolSpecInit == AppInit /\ ToolInit
ToolSpec == ToolSpecInit /\ [][ToolNext]_vars

----------------------------------------------------------------------------
(* Claims about app.py, checked under Spec *)

\* C1: a specialist agent is invoked only after research_guardrail has
\* returned for the same query with a verdict whose is_research is TRUE;
\* when the verdict has is_research FALSE no specialist is invoked and
\* Runner.run produces no result.
C1_GateBeforeDispatch ==
    /\ invoked \subseteq Specialists
    /\ invoked # {} =>
          /\ guard = "done"
          /\ final_output.is_research
          /\ guard_input = runner_input
    /\ (guard = "done" /\ ~final_output.is_research) =>
          /\ invoked = {}
          /\ result.kind = "none"
          /\ rendered.kind # "text"

\* the verdict rejects the query while the triage turn has already asked
\* for a handoff: the run has ended and no specialist was invoked
C1_Witness ==
    /\ pc = "idle"
    /\ guard = "done"
    /\ ~final_output.is_research
    /\ triage = "handoff"
    /\ invoked = {}

\* C2: when the verdict accepts the query and the run completes, exactly
\* one specialist has been invoked and the rendered text is that
\* specialist's final response, never the triage agent's own output.
C2_ExactlyOneSpecialistRendered ==
    rendered.kind = "text" =>
        /\ Cardinality(invoked) = 1
        /\ rendered.agent \in invoked

\* C3: each submit action performs exactly one Runner.run(triage_agent, ..)
\* call, with the current query text (the empty one included); a failed
\* call is not repeated; without a submit action there is no call.
C3_ExactlyOneRoutePerSubmit ==
    /\ runner_calls <= 1
    /\ ~button => runner_calls = 0
    /\ runner_calls = 1 => runner_input = user_input
    /\ (pc = "idle" /\ button) => runner_calls = 1

\* C4: while the Runner.run call is outstanding the busy indicator is
\* displayed; it is removed, and a response or an error rendered, only
\* after the call has completed or failed.
C4_BusyWhileOutstanding ==
    /\ pc = "await" => spinner
    /\ rendered.kind # "none" => pc \notin {"sleep", "run", "await"}

\* C5: when the guardrail rejects the query the output area shows an
\* explicit declination message that carries the verdict's reasoning
\* verbatim, distinct from what a hard failure shows.
C5_DeclinationRendered ==
    (pc = "idle" /\ guard = "done" /\ guard_out.tripwire_triggered) =>
        /\ rendered.kind = "declined"
        /\ rendered.rationale = guard_out.output_info.reasoning

\* C8: the environment credential always equals the value last entered in
\* the credential input; the Runner.run call uses it, and so does the
\* tracing export key set from it.
C8_CredentialIsLatest ==
    /\ environ = openai_key
    /\ runner_calls > 0 => runner_key = openai_key
    /\ trace_status = "ok" => tracing_key = [set |-> TRUE, key |-> openai_key]

\* a credential of two characters has been entered and a Runner.run call
\* made under it is outstanding
C8_Witness ==
    /\ pc = "await"
    /\ Len(openai_key) = 2
    /\ runner_key = openai_key
    /\ tracing_key.key = openai_key

\* C9: a failure of the tracing set-up does not block the response path:
\* the submit still calls Runner.run and its response or its own error is
\* what the output area shows.
C9_TracingFailureDoesNotBlock ==
    (pc = "idle" /\ button /\ trace_status = "failed") =>
        /\ runner_calls = 1
        /\ rendered.kind # "none"
        /\ rendered.error \notin TracingErrors

\* C10: research_guardrail returns tripwire_triggered equal to the negation
\* of the verdict's is_research, and output_info equal to the verdict; it
\* makes the classification call exactly once.
C10_GuardrailOutput ==
    /\ guard = "done" =>
          /\ guard_out.tripwire_triggered = ~final_output.is_research
          /\ guard_out.output_info = final_output
          /\ classify_calls = 1
    /\ guard \in {"classifying", "failed"} => classify_calls = 1
    /\ guard \in {"idle", "none"} => classify_calls = 0

\* research_guardrail has returned for a verdict that is no research and
\* has a reasoning text
C10_Witness ==
    /\ guard = "done"
    /\ ~final_output.is_research
    /\ final_output.reasoning # <<>>
    /\ guard_out.tripwire_triggered

----------------------------------------------------------------------------
(* Claims about parquet_tools.py, checked under ToolSpec *)

\* C6: an invocation whose arguments lack filename ends with
\* InvalidArguments and never calls the provider; the provider is called
\* only for an invocation whose arguments hold filename, with that value.
C6_MissingFilenameRejected ==
    \A i \in Slots :
        /\ (calls[i].state # "idle" /\ ~Has(calls[i].args, "filename")) =>
              /\ calls[i].state = "done"
              /\ calls[i].provider_calls = 0
              /\ calls[i].result = Failure("InvalidArguments")
        /\ (calls[i].state = "called" \/ calls[i].provider_calls > 0) =>
              /\ Has(calls[i].args, "filename")
              /\ calls[i].filename = Get(calls[i].args, "filename")

\* an invocation that carries an argument, but not filename, has been
\* answered with InvalidArguments
C6_Witness ==
    \E i \in Slots :
        /\ calls[i].state = "done"
        /\ calls[i].args # {}
        /\ ~Has(calls[i].args, "filename")
        /\ calls[i].result.error = "InvalidArguments"

Answered(i) == calls[i].state = "done" /\ calls[i].provider_calls > 0

====
